---- MODULE Spec2Model ----
(***************************************************************************)
(* A model of VarTable<Ts...> (VarTable.h): a table of rows with a fixed,  *)
(* typed schema that is sized and printed to an output stream.             *)
(*                                                                         *)
(* Text is modelled by TLA+ strings.  A double is modelled by the integer  *)
(* count of its thousandths (160200 is 160.2); the values used have no     *)
(* digit 5 followed only by zeros, so no rounding the stream performs is a *)
(* tie and round-half-up agrees with the stream's rounding.                *)
(***************************************************************************)
EXTENDS Integers, Sequences, FiniteSets

VARIABLES
    Ts,                  \* the template arguments: the type of each column
    _headers,            \* std::vector<std::string>
    _num_columns,        \* std::tuple_size<DataTuple>::value
    _static_column_size, \* size of the columns whose size cannot be found
    _cell_padding,       \* spaces on both sides of every cell
    _data,               \* std::vector<DataTuple>
    _column_sizes,       \* printable width of each column (set by print)
    _column_format,      \* std::vector<VarTableColumnFormat>, empty when unset
    _print_style,        \* PrintStyle
    _alignment_style,    \* std::vector<AlignmentStyle>, empty when unset
    _precision,          \* std::vector<int>, empty when unset
    stream,              \* the sink's formatting state: precision and flags
    nan_size,            \* what this build converts a NaN to (undefined)
    status,              \* "ok", or "ConfigMismatch" once an assertion aborted
    out,                 \* the lines the most recent call wrote to the sink
    used,                \* per cell written by that call: the settings in effect
    entry,               \* what the print that wrote them found when called
    shown                \* the number of rows the most recent print wrote

vars == <<Ts, _headers, _num_columns, _static_column_size, _cell_padding, _data,
          _column_sizes, _column_format, _print_style, _alignment_style,
          _precision, stream, nan_size, status, out, used, entry, shown>>

table == <<Ts, _headers, _num_columns, _static_column_size, _cell_padding>>

-----------------------------------------------------------------------------
(* Bounds of the model *)

MaxRows == 2

-----------------------------------------------------------------------------
(* Text *)

Max(a, b) == IF a >= b THEN a ELSE b

Abs(v) == IF v < 0 THEN 0 - v ELSE v

RECURSIVE Pow10(_)
Pow10(n) == IF n <= 0 THEN 1 ELSE 10 * Pow10(n - 1)

\* std::string(n, c)
RECURSIVE Fill(_, _)
Fill(n, c) == IF n <= 0 THEN "" ELSE c \o Fill(n - 1, c)

\* the number of decimal digits of n >= 0
RECURSIVE NumDigits(_)
NumDigits(n) == IF n < 10 THEN 1 ELSE 1 + NumDigits(n \div 10)

Digit(d) == SubSeq("0123456789", d + 1, d + 1)

\* n >= 0 in decimal
RECURSIVE Decimal(_)
Decimal(n) == IF n < 10 THEN Digit(n) ELSE Decimal(n \div 10) \o Digit(n % 10)

\* n >= 0 in decimal, zero-filled to at least w digits
ZeroFilled(n, w) == Fill(w - NumDigits(n), "0") \o Decimal(n)

RECURSIVE Flat(_)
Flat(chunks) == IF chunks = <<>> THEN "" ELSE Head(chunks) \o Flat(Tail(chunks))

-----------------------------------------------------------------------------
(* operator<< of the stream for each column type *)

\* operator<<(int)
IntText(v) == IF v < 0 THEN "-" \o Decimal(0 - v) ELSE Decimal(v)

\* n / d rounded to the nearest integer (n >= 0, d > 0)
RoundDiv(n, d) == (2 * n + d) \div (2 * d)

Sign(m) == IF m < 0 THEN "-" ELSE ""

\* q / 10^p written with p digits after the point
PointText(q, p) ==
    Decimal(q \div Pow10(p))
        \o (IF p > 0 THEN "." \o ZeroFilled(q % Pow10(p), p) ELSE "")

\* thousandths a >= 0 rounded to p <= 3 digits after the point, as the
\* integer count of its 10^-p units
Rounded(a, p) == RoundDiv(a, Pow10(3 - p))

\* "%.*f": thousandths m with p digits after the point (the digits past the
\* third are zeros)
FixedText(m, p) ==
    Sign(m) \o (IF p <= 3 THEN PointText(Rounded(Abs(m), p), p)
                          ELSE PointText(Abs(m), 3) \o Fill(p - 3, "0"))

\* thousandths a >= 0 rounded to p + 1 significant digits: the mantissa q
\* with n digits after the point, z zeros to follow them, and the decimal
\* exponent e
SciParts(a, p) ==
    IF a = 0 THEN [q |-> 0, n |-> 0, z |-> p, e |-> 0]
    ELSE LET d == NumDigits(a)
         IN  IF p >= d - 1 THEN [q |-> a, n |-> d - 1, z |-> p - (d - 1), e |-> d - 4]
             ELSE LET q == RoundDiv(a, Pow10(d - 1 - p))
                  IN  IF q >= Pow10(p + 1)
                      THEN [q |-> q \div 10, n |-> p, z |-> 0, e |-> d - 3]
                      ELSE [q |-> q, n |-> p, z |-> 0, e |-> d - 4]

ExpText(e) == "e" \o (IF e < 0 THEN "-" ELSE "+") \o ZeroFilled(Abs(e), 2)

\* "%.*e"
SciText(m, p) ==
    LET s == SciParts(Abs(m), p)
    IN  Sign(m) \o Decimal(s.q \div Pow10(s.n))
            \o (IF p > 0 THEN "." \o (IF s.n > 0 THEN ZeroFilled(s.q % Pow10(s.n), s.n)
                                                 ELSE "")
                                  \o Fill(s.z, "0")
                         ELSE "")
            \o ExpText(s.e)

\* q / 10^p with the trailing zeros of the fraction removed
RECURSIVE Stripped(_, _)
Stripped(q, p) ==
    IF p > 0 /\ q % 10 = 0 THEN Stripped(q \div 10, p - 1) ELSE PointText(q, p)

\* "%.*g"
GeneralText(m, p) ==
    LET P == IF p = 0 THEN 1 ELSE p
        s == SciParts(Abs(m), P - 1)
        f == P - 1 - s.e
    IN  IF s.e >= -4 /\ s.e < P
        THEN Sign(m) \o (IF f <= 3 THEN Stripped(Rounded(Abs(m), f), f)
                                   ELSE Stripped(Abs(m), 3))
        ELSE Sign(m) \o Stripped(s.q, s.n) \o ExpText(s.e)

\* operator<<(double) under the stream's precision and floatfield
DoubleText(m, precision, floatfield) ==
    CASE floatfield = "fixed"      -> FixedText(m, precision)
      [] floatfield = "scientific" -> SciText(m, precision)
      [] OTHER                     -> GeneralText(m, precision)

IsText(T) == T \in {"std::string", "const char*"}

\* what stream << val writes, before it is padded to the field width
ValText(T, val, s) ==
    CASE IsText(T)    -> val
      [] T = "int"    -> IntText(val)
      [] T = "double" -> DoubleText(val, s.precision, s.floatfield)

\* the field: text padded with spaces to the width std::setw set
Padded(text, width, adjustfield, numeric) ==
    LET n == width - Len(text)
    IN  IF n <= 0 THEN text
        ELSE IF adjustfield = "left" THEN text \o Fill(n, " ")
        ELSE IF adjustfield = "internal" /\ numeric /\ SubSeq(text, 1, 1) = "-"
             THEN "-" \o Fill(n, " ") \o SubSeq(text, 2, Len(text))
        ELSE Fill(n, " ") \o text


-----------------------------------------------------------------------------
(* The inputs the model draws from *)

\* constructor calls VarTable<Ts...>(headers, static_column_size, cell_padding)
Constructions ==
    { [Ts |-> <<"std::string", "double">>, headers |-> <<"Surname", "Pct">>,
       static |-> 0, pad |-> 1],
      [Ts |-> <<"double", "const char*">>, headers |-> <<"Weight", "Brother">>,
       static |-> 10, pad |-> 0],
      [Ts |-> <<"int", "const char*">>, headers |-> <<"N", "Brother">>,
       static |-> 0, pad |-> 2] }

\* the values addRow is called with, per column type
Values(T) ==
    CASE T = "std::string" -> {"HanMei", "Jim Green"}
      [] T = "const char*" -> {"Hart Green"}
      [] T = "int"         -> {0, 17, -5}
      [] T = "double"      -> {1234567}

Styles == {"BASIC", "SIMPLE", "EMPTY", "FULL"}

\* the lists the setters are called with; the one-element lists are one
\* element short of the column count
FormatLists == { <<"AUTO", "PERCENT">>, <<"SCIENTIFIC", "FIXED">>, <<"PERCENT">> }

AlignmentLists == { <<"INTERNAL", "LEFT">>, <<"RIGHT">> }

PrecisionLists == { <<3, 0>>, <<4>> }

\* the formatting state of a sink: a fresh std::ostream, and (for the tables
\* with a floating-point column, the only ones it shows in) one its owner has
\* set to fixed notation with three digits
FreshStream == [precision |-> 6, floatfield |-> "none", adjustfield |-> "none"]

Streams == { FreshStream,
             [precision |-> 3, floatfield |-> "fixed", adjustfield |-> "none"] }

\* the conversion of a NaN to size_t is undefined: a build yields some
\* value, such as 0 or a value that happens to fit
NanSizes == {0, 2}

-----------------------------------------------------------------------------
(* Width computation *)

Cols == 1 .. _num_columns

\* floor(log10(v)) for v >= 1
RECURSIVE FloorLog10(_)
FloorLog10(v) == IF v < 10 THEN 0 ELSE 1 + FloorLog10(v \div 10)

\* the three overloads of sizeOfData; std::log10 of a negative value is a
\* NaN, and NaN + 1 converted to size_t is whatever the build yields
sizeOfData(T, data) ==
    CASE T = "std::string" -> Len(data)
      [] T = "int"         -> IF data = 0 THEN 1
                              ELSE IF data > 0 THEN FloorLog10(data) + 1
                              ELSE nan_size
      [] OTHER             -> _static_column_size

\* size_each without its override for PERCENT
size_each_no_override(t) == [I \in Cols |-> sizeOfData(Ts[I], t[I])]

\* size_each: the size of every element of one row
size_each(t) ==
    [I \in Cols |->
        IF _column_format # <<>> /\ _column_format[I] = "PERCENT"
        THEN 6
        ELSE sizeOfData(Ts[I], t[I])]

\* the loop of size_columns over the rows
RECURSIVE size_rows(_, _)
size_rows(sizes, rows) ==
    IF rows = <<>> THEN sizes
    ELSE LET column_sizes == size_each(Head(rows))
         IN  size_rows([i \in Cols |-> Max(sizes[i], column_sizes[i])], Tail(rows))

\* size_columns: the value it leaves in _column_sizes
size_columns == size_rows([i \in Cols |-> Len(_headers[i])], _data)

-----------------------------------------------------------------------------
(* Printing *)

Bordered(style) == style # "SIMPLE" /\ style # "EMPTY"

\* the column separator "|" or " "
Separator == IF Bordered(_print_style) THEN "|" ELSE " "

Padding == Fill(_cell_padding, " ")

justify(align) ==
    IF align = "LEFT" THEN "left"
    ELSE IF align = "RIGHT" THEN "right"
    ELSE "internal"

IsArithmetic(T) == T \in {"int", "double"}

justify_empty(T) == IF IsArithmetic(T) THEN "right" ELSE "left"

\* print_each setting the format before the precision, so that the
\* precision list overrides the precision of PERCENT
cell_stream_precision_last(s, I) ==
    LET s1 == IF _column_format = <<>> THEN s
              ELSE CASE _column_format[I] = "SCIENTIFIC" ->
                            [s EXCEPT !.floatfield = "scientific"]
                     [] _column_format[I] = "FIXED" ->
                            [s EXCEPT !.floatfield = "fixed"]
                     [] _column_format[I] = "PERCENT" ->
                            [s EXCEPT !.floatfield = "fixed", !.precision = 2]
                     [] OTHER -> s
        s2 == IF _precision # <<>>
              THEN [s1 EXCEPT !.precision = _precision[I]] ELSE s1
    IN  [s2 EXCEPT !.adjustfield =
            IF _alignment_style # <<>> THEN justify(_alignment_style[I])
                                       ELSE justify_empty(Ts[I])]

\* the stream once print_each has set the precision, the format and the
\* alignment of column I
cell_stream(s, I) ==
    LET s1 == IF _precision # <<>>
              THEN [s EXCEPT !.precision = _precision[I]] ELSE s
        s2 == IF _column_format = <<>> THEN s1
              ELSE CASE _column_format[I] = "SCIENTIFIC" ->
                            [s1 EXCEPT !.floatfield = "scientific"]
                     [] _column_format[I] = "FIXED" ->
                            [s1 EXCEPT !.floatfield = "fixed"]
                     [] _column_format[I] = "PERCENT" ->
                            [s1 EXCEPT !.floatfield = "fixed", !.precision = 2]
                     [] OTHER -> s1
    IN  [s2 EXCEPT !.adjustfield =
            IF _alignment_style # <<>> THEN justify(_alignment_style[I])
                                       ELSE justify_empty(Ts[I])]

\* the stream once print_each has unset the format after a cell
cell_unset(s) ==
    IF _column_format # <<>> THEN [s EXCEPT !.floatfield = "none"] ELSE s

\* print_each from column I on: the chunks written, the settings each value
\* was written under, and the stream it leaves
RECURSIVE print_each(_, _, _, _)
print_each(t, sizes, s, I) ==
    IF I > _num_columns THEN [text |-> <<>>, used |-> <<>>, stream |-> s]
    ELSE LET c    == cell_stream(s, I)
             val  == Padded(ValText(Ts[I], t[I], c), sizes[I], c.adjustfield,
                            IsArithmetic(Ts[I]))
             rest == print_each(t, sizes, cell_unset(c), I + 1)
         IN  [text   |-> <<Padding, val, Padding, Separator>> \o rest.text,
              used   |-> <<[precision |-> c.precision, floatfield |-> c.floatfield]>>
                             \o rest.used,
              stream |-> rest.stream]

\* print_plus: the line it writes, if the style has one
RECURSIVE plus_columns(_, _, _)
plus_columns(sizes, corner, i) ==
    IF i > _num_columns THEN <<>>
    ELSE <<Fill(sizes[i] + 2 * _cell_padding, "-"), corner>>
             \o plus_columns(sizes, corner, i + 1)

print_plus(sizes) ==
    CASE _print_style \in {"BASIC", "FULL"} ->
             << [by |-> "print_plus", text |-> <<"+">> \o plus_columns(sizes, "+", 1)] >>
      [] _print_style = "SIMPLE" ->
             << [by |-> "print_plus", text |-> <<" ">> \o plus_columns(sizes, " ", 1)] >>
      [] OTHER -> <<>>

\* the header line of print
RECURSIVE header_columns(_, _)
header_columns(sizes, i) ==
    IF i > _num_columns THEN <<>>
    ELSE LET half == sizes[i] \div 2 - Len(_headers[i]) \div 2
         IN  <<Padding,
               Padded(Fill(half, " ") \o _headers[i], sizes[i], "left", FALSE),
               Padding, Separator>> \o header_columns(sizes, i + 1)

print_headers(sizes) ==
    [by |-> "headers", text |-> <<Separator>> \o header_columns(sizes, 1)]

\* the loop of print over the rows
RECURSIVE print_rows(_, _, _)
print_rows(rows, sizes, s) ==
    IF rows = <<>> THEN [lines |-> <<>>, used |-> <<>>, stream |-> s]
    ELSE LET row  == print_each(Head(rows), sizes, s, 1)
             rest == print_rows(Tail(rows), sizes, row.stream)
         IN  [lines  |-> << [by |-> "print_each",
                             text |-> <<Separator>> \o row.text] >>
                             \o (IF _print_style = "FULL" THEN print_plus(sizes)
                                                         ELSE <<>>)
                             \o rest.lines,
              used   |-> <<row.used>> \o rest.used,
              stream |-> rest.stream]

\* print writing its last line in the FULL style too
print_border_after_last(sizes) ==
    LET top  == IF Bordered(_print_style) THEN print_plus(sizes) ELSE <<>>
        mid  == IF _print_style # "EMPTY" THEN print_plus(sizes) ELSE <<>>
        rows == print_rows(_data, sizes, [stream EXCEPT !.adjustfield = "left"])
        last == IF Bordered(_print_style) THEN print_plus(sizes) ELSE <<>>
    IN  [lines  |-> top \o <<print_headers(sizes)>> \o mid \o rows.lines \o last,
         used   |-> rows.used,
         stream |-> rows.stream]

\* print: what it writes and what it leaves, given the sizes size_columns set
print(sizes) ==
    LET top  == IF Bordered(_print_style) THEN print_plus(sizes) ELSE <<>>
        mid  == IF _print_style # "EMPTY" THEN print_plus(sizes) ELSE <<>>
        rows == print_rows(_data, sizes, [stream EXCEPT !.adjustfield = "left"])
        last == IF _print_style = "BASIC" THEN print_plus(sizes) ELSE <<>>
    IN  [lines  |-> top \o <<print_headers(sizes)>> \o mid \o rows.lines \o last,
         used   |-> rows.used,
         stream |-> rows.stream]

-----------------------------------------------------------------------------
(* The state machine *)

NoEntry == [stream |-> FreshStream, sizes |-> <<>>, shown |-> 0]

Quiet == /\ out' = <<>>
         /\ used' = <<>>
         /\ entry' = NoEntry

\* the table after construction, before any call
Init ==
    /\ \E c \in Constructions :
          /\ Ts = c.Ts
          /\ _headers = c.headers
          /\ _num_columns = Len(c.Ts)
          /\ _static_column_size = c.static
          /\ _cell_padding = c.pad
          /\ nan_size \in (IF \E i \in 1 .. Len(c.Ts) : c.Ts[i] = "int"
                           THEN NanSizes ELSE {0})
    /\ _data = <<>>
    /\ _column_sizes = <<>>
    /\ _column_format = <<>>
    /\ _print_style = "BASIC"
    /\ _alignment_style = <<>>
    /\ _precision = <<>>
    /\ stream \in (IF \E i \in Cols : Ts[i] = "double" THEN Streams ELSE {FreshStream})
    /\ status = "ok"
    /\ out = <<>>
    /\ used = <<>>
    /\ entry = NoEntry
    /\ shown = 0

addRow(entries) ==
    /\ status = "ok"
    /\ Len(_data) < MaxRows
    /\ _data' = Append(_data, entries)
    /\ Quiet
    /\ UNCHANGED <<table, _column_sizes, _column_format, _print_style,
                   _alignment_style, _precision, stream, nan_size, status, shown>>

\* the rows of the schema: one value of its type per column, from column i on
RECURSIVE Rows(_)
Rows(i) ==
    IF i > _num_columns THEN { <<>> }
    ELSE { <<v>> \o r : v \in Values(Ts[i]), r \in Rows(i + 1) }

AddRow == \E entries \in Rows(1) : addRow(entries)

PrintCall ==
    /\ status = "ok"
    /\ _column_sizes' = size_columns
    /\ LET p == print(_column_sizes')
       IN  /\ stream' = p.stream
           /\ out' = p.lines
           /\ used' = p.used
    /\ entry' = [stream |-> stream, sizes |-> _column_sizes, shown |-> shown]
    /\ shown' = Len(_data)
    /\ UNCHANGED <<table, _data, _column_format, _print_style, _alignment_style,
                   _precision, nan_size, status>>

\* setColumnFormat without its assertion
setColumnFormat_unchecked(column_format) ==
    /\ status = "ok"
    /\ Quiet
    /\ _column_format' = column_format
    /\ UNCHANGED <<table, _data, _column_sizes, _print_style, _alignment_style,
                   _precision, stream, nan_size, status, shown>>

\* the assertion on the list's size, and the abort it ends the program with
setColumnFormat(column_format) ==
    /\ status = "ok"
    /\ Quiet
    /\ IF Len(column_format) = _num_columns
       THEN _column_format' = column_format /\ status' = "ok"
       ELSE status' = "ConfigMismatch" /\ UNCHANGED _column_format
    /\ UNCHANGED <<table, _data, _column_sizes, _print_style, _alignment_style,
                   _precision, stream, nan_size, shown>>

SetColumnFormat == \E column_format \in FormatLists : setColumnFormat(column_format)

setPrintStyle(print_style) ==
    /\ status = "ok"
    /\ Quiet
    /\ _print_style' = print_style
    /\ UNCHANGED <<table, _data, _column_sizes, _column_format, _alignment_style,
                   _precision, stream, nan_size, status, shown>>

SetPrintStyle == \E print_style \in Styles : setPrintStyle(print_style)

setAlignmentStyle(alignment_style) ==
    /\ status = "ok"
    /\ Quiet
    /\ IF Len(alignment_style) = _num_columns
       THEN _alignment_style' = alignment_style /\ status' = "ok"
       ELSE status' = "ConfigMismatch" /\ UNCHANGED _alignment_style
    /\ UNCHANGED <<table, _data, _column_sizes, _column_format, _print_style,
                   _precision, stream, nan_size, shown>>

SetAlignmentStyle ==
    \E alignment_style \in AlignmentLists : setAlignmentStyle(alignment_style)

setColumnPrecision(precision) ==
    /\ status = "ok"
    /\ Quiet
    /\ IF Len(precision) = _num_columns
       THEN _precision' = precision /\ status' = "ok"
       ELSE status' = "ConfigMismatch" /\ UNCHANGED _precision
    /\ UNCHANGED <<table, _data, _column_sizes, _column_format, _print_style,
                   _alignment_style, stream, nan_size, shown>>

SetColumnPrecision == \E precision \in PrecisionLists : setColumnPrecision(precision)

Next ==
    \/ AddRow
    \/ PrintCall
    \/ SetColumnFormat
    \/ SetPrintStyle
    \/ SetAlignmentStyle
    \/ SetColumnPrecision

Spec == Init /\ [][Next]_vars

-----------------------------------------------------------------------------
(* What the claims speak of *)

\* the most recent call was print: print always writes the header line
Printed == out # <<>>

\* the characters of one line
LineLen(line) == Len(Flat(line.text))

\* the lines of the headers and of the rows
ContentLines == { k \in DOMAIN out : out[k].by \in {"headers", "print_each"} }

\* the lines of the rows, in order
RECURSIVE RowLines(_)
RowLines(k) ==
    IF k > Len(out) THEN <<>>
    ELSE (IF out[k].by = "print_each" THEN <<out[k]>> ELSE <<>>) \o RowLines(k + 1)

\* the field of column i in a header line or a row line, and the character
\* that ends it; the first chunk of a line is its leading character
Field(line, i) == line.text[4 * (i - 1) + 3]

FieldEnd(line, i) == line.text[4 * (i - 1) + 5]

\* the text print wrote for row r, column i, before padding
Shown(r, i) == ValText(Ts[i], _data[r][i], used[r][i])

\* the bytes of the output
Bytes(lines) == [k \in DOMAIN lines |-> Flat(lines[k].text)]

IsPercent(i) == _column_format # <<>> /\ _column_format[i] = "PERCENT"

-----------------------------------------------------------------------------
(* C1 *)

\* C1: in the output of one print call the header line and every data-row
\* line have the same total number of characters.
C1_LinesSameWidth ==
    \A j, k \in ContentLines : LineLen(out[j]) = LineLen(out[k])

-----------------------------------------------------------------------------
(* C2 *)

\* C2: after the width computation of print, every column is at least as wide
\* as its header and as the formatted text of its cell in every row.
C2_WidthCoversCells ==
    Printed =>
        \A i \in Cols :
            /\ _column_sizes[i] >= Len(_headers[i])
            /\ \A r \in DOMAIN _data : _column_sizes[i] >= Len(Shown(r, i))

-----------------------------------------------------------------------------
(* C3 *)

\* C3: a print call that directly follows a print call, on the same sink and
\* with no addRow or setter call between them, writes the same bytes.
C3_PrintIdempotent ==
    [][(Printed /\ Printed') => Bytes(out') = Bytes(out)]_vars

-----------------------------------------------------------------------------
(* C4 *)

Config == <<_column_format, _alignment_style, _precision, _print_style, _data>>

\* C4: whenever the table can be called, each list setter called with a list
\* whose length differs from the column count ends in ConfigMismatch and
\* leaves format, alignment, precision, style and rows as they were, and
\* called with a list of the right length it succeeds and stores that list,
\* whole, leaving the other fields as they were.
C4_SetterContract ==
    status = "ok" =>
        /\ \A l \in FormatLists :
              /\ ENABLED setColumnFormat(l)
              /\ IF Len(l) # _num_columns
                 THEN ~ENABLED (setColumnFormat(l)
                                  /\ ~(status' = "ConfigMismatch" /\ UNCHANGED Config))
                 ELSE ~ENABLED (setColumnFormat(l)
                                  /\ ~(/\ status' = "ok"
                                       /\ _column_format' = l
                                       /\ UNCHANGED <<_alignment_style, _precision,
                                                      _print_style, _data>>))
        /\ \A l \in AlignmentLists :
              /\ ENABLED setAlignmentStyle(l)
              /\ IF Len(l) # _num_columns
                 THEN ~ENABLED (setAlignmentStyle(l)
                                  /\ ~(status' = "ConfigMismatch" /\ UNCHANGED Config))
                 ELSE ~ENABLED (setAlignmentStyle(l)
                                  /\ ~(/\ status' = "ok"
                                       /\ _alignment_style' = l
                                       /\ UNCHANGED <<_column_format, _precision,
                                                      _print_style, _data>>))
        /\ \A l \in PrecisionLists :
              /\ ENABLED setColumnPrecision(l)
              /\ IF Len(l) # _num_columns
                 THEN ~ENABLED (setColumnPrecision(l)
                                  /\ ~(status' = "ConfigMismatch" /\ UNCHANGED Config))
                 ELSE ~ENABLED (setColumnPrecision(l)
                                  /\ ~(/\ status' = "ok"
                                       /\ _precision' = l
                                       /\ UNCHANGED <<_column_format, _alignment_style,
                                                      _print_style, _data>>))

\* a setter has failed on a table that had rows and a full configuration
C4_Witness ==
    /\ status = "ConfigMismatch"
    /\ _data # <<>>
    /\ Len(_column_format) = _num_columns
    /\ Len(_alignment_style) = _num_columns
    /\ Len(_precision) = _num_columns
    /\ _print_style # "BASIC"

-----------------------------------------------------------------------------
(* C5 *)

\* C5, as claimed: every PERCENT column is at least 6 wide on every print,
\* for any number of rows, zero included.
C5_PercentWidthAlways ==
    Printed => \A i \in Cols : IsPercent(i) => _column_sizes[i] >= 6

\* C5, amended: on every print of a table with at least one row, every
\* PERCENT column is at least 6 wide, and so is its field in the header line
\* and in every row line.
C5_PercentWidthWithRows ==
    (Printed /\ _data # <<>>) =>
        \A i \in Cols :
            IsPercent(i) =>
                /\ _column_sizes[i] >= 6
                /\ \A k \in ContentLines : Len(Field(out[k], i)) >= 6

\* a PERCENT column under a header shorter than 6 was printed with a row
C5_Witness ==
    /\ Printed
    /\ _data # <<>>
    /\ \E i \in Cols : IsPercent(i) /\ Len(_headers[i]) < 6

-----------------------------------------------------------------------------
(* C6 *)

\* the rows added since the print before the most recent one
NewRows == (entry.shown + 1) .. Len(_data)

\* a print came before the most recent one
PrintedBefore == Printed /\ entry.sizes # <<>>

\* every row line holds column c in a field of at least the column's width
Reflowed(c) ==
    \A k \in ContentLines : Len(Field(out[k], c)) >= _column_sizes[c]

\* C6: a row added between two prints whose value in column c is longer
\* than every earlier entry of the column (the header and the value of every
\* earlier row) makes the second print use a strictly greater width for c
\* than the first, at which every row is written.
C6_LongerRowWidens ==
    PrintedBefore =>
        \A c \in Cols :
            \A r \in NewRows :
                (/\ Len(Shown(r, c)) > Len(_headers[c])
                 /\ \A q \in 1 .. (r - 1) : Len(Shown(r, c)) > Len(Shown(q, c)))
                    => (_column_sizes[c] > entry.sizes[c] /\ Reflowed(c))

-----------------------------------------------------------------------------
(* C7 *)

\* C7: every cell of a PERCENT column is written with precision 2 in fixed
\* notation, whatever the precision list and the sink's precision.
C7_PercentPrecision ==
    \A r \in DOMAIN used :
        \A i \in Cols :
            IsPercent(i) =>
                /\ used[r][i] = [precision |-> 2, floatfield |-> "fixed"]
                /\ Ts[i] = "double" =>
                       Field(RowLines(1)[r], i)
                           = Padded(FixedText(_data[r][i], 2), _column_sizes[i],
                                    IF _alignment_style # <<>>
                                    THEN justify(_alignment_style[i]) ELSE "right",
                                    TRUE)

\* a floating-point PERCENT cell was written although the precision list asks
\* for another precision and the sink came with yet another
C7_Witness ==
    /\ used # <<>>
    /\ \E i \in Cols :
          /\ IsPercent(i)
          /\ Ts[i] = "double"
          /\ _precision # <<>>
          /\ _precision[i] # 2
          /\ entry.stream.precision \notin {2, _precision[i]}

-----------------------------------------------------------------------------
(* C8 *)

\* what a line is, by the code that wrote it and its first character
Kind(line) ==
    CASE line.by = "headers"    -> "header"
      [] line.by = "print_each" -> "row"
      [] OTHER -> IF Head(line.text) = "+" THEN "border" ELSE "dashes"

\* the lines of n rows under a style
RECURSIVE RowsTemplate(_, _)
RowsTemplate(style, n) ==
    IF n = 0 THEN <<>>
    ELSE <<"row">> \o (IF style = "FULL" THEN <<"border">> ELSE <<>>)
                  \o RowsTemplate(style, n - 1)

Template(style, n) ==
    CASE style = "BASIC"  -> <<"border", "header", "border">>
                                 \o RowsTemplate(style, n) \o <<"border">>
      [] style = "FULL"   -> <<"border", "header", "border">> \o RowsTemplate(style, n)
      [] style = "SIMPLE" -> <<"header", "dashes">> \o RowsTemplate(style, n)
      [] style = "EMPTY"  -> <<"header">> \o RowsTemplate(style, n)

\* a line of dashes: a corner, then per column its dashes and a corner
IsRule(line, corner) ==
    /\ Len(line.text) = 2 * _num_columns + 1
    /\ Head(line.text) = corner
    /\ \A i \in Cols :
          /\ line.text[2 * i] = Fill(_column_sizes[i] + 2 * _cell_padding, "-")
          /\ line.text[2 * i + 1] = corner

\* a header or row line: a leading character, then per column its field
\* between paddings and a closing character
IsContent(line, bar) ==
    /\ Len(line.text) = 4 * _num_columns + 1
    /\ Head(line.text) = bar
    /\ \A i \in Cols : FieldEnd(line, i) = bar

\* C8: the lines one print writes for n rows are those of its style's
\* template; the borders of BASIC and FULL are "+" lines and their headers
\* and rows are set in "|"; SIMPLE has one dash line set in spaces and no
\* "+" line; EMPTY has no border line; and SIMPLE and EMPTY set their
\* headers and rows in spaces, with no "|" or "+".
C8_LinesByStyle ==
    Printed =>
        /\ [k \in DOMAIN out |-> Kind(out[k])] = Template(_print_style, Len(_data))
        /\ \A k \in DOMAIN out :
              CASE Kind(out[k]) = "border" ->
                       _print_style \in {"BASIC", "FULL"} /\ IsRule(out[k], "+")
                [] Kind(out[k]) = "dashes" ->
                       _print_style = "SIMPLE" /\ IsRule(out[k], " ")
                [] OTHER ->
                       IsContent(out[k], IF _print_style \in {"BASIC", "FULL"}
                                         THEN "|" ELSE " ")

\* two rows were printed in the FULL style
C8_Witness ==
    /\ Printed
    /\ _print_style = "FULL"
    /\ Len(_data) >= 2

-----------------------------------------------------------------------------
(* C9 *)

\* the settings column j asks for, given those the sink came with
OwnSettings(j) ==
    [precision  |-> IF IsPercent(j) THEN 2
                    ELSE IF _precision # <<>> THEN _precision[j]
                    ELSE entry.stream.precision,
     floatfield |-> IF _column_format = <<>> THEN entry.stream.floatfield
                    ELSE CASE _column_format[j] = "SCIENTIFIC" -> "scientific"
                           [] _column_format[j] \in {"FIXED", "PERCENT"} -> "fixed"
                           [] OTHER -> entry.stream.floatfield]

\* C9: the settings a cell of column j is written under are those of column
\* j's own configuration and of the sink at the start of print only.
C9_NoLeakBetweenCells ==
    \A r \in DOMAIN used : \A j \in Cols : used[r][j] = OwnSettings(j)

-----------------------------------------------------------------------------
(* C10 *)

\* C10: the length the width computation of print uses for an integer cell v
\* is 1 for v = 0 and the number of decimal digits of |v| otherwise.
C10_IntegerLength ==
    Printed =>
      \A r \in DOMAIN _data :
        \A i \in Cols :
            Ts[i] = "int" =>
                sizeOfData(Ts[i], _data[r][i])
                    = (IF _data[r][i] = 0 THEN 1 ELSE NumDigits(Abs(_data[r][i])))

=============================================================================
